---------------------------- MODULE Spec2Model ----------------------------
(***************************************************************************)
(* FYP Analysis System (src/main.py): the domain resolution of             *)
(* FYPAnalyzer.categorize_by_domain and the pairwise similarity table of   *)
(* FYPAnalyzer.calculate_similarity, as state machines.                    *)
(*                                                                         *)
(* A Python str is a sequence of atoms.  The atoms of a title, a scope or  *)
(* a keyword are its characters; a domain name is one atom, because the    *)
(* code only tests it for emptiness, compares it, and strips white space   *)
(* around it.  The empty str is << >>.                                     *)
(***************************************************************************)
EXTENDS Integers, Sequences, FiniteSets, TLC

VARIABLES
    gemini_model,          \* self.gemini_model is set (the adapter is configured)
    similarity_threshold,  \* self.similarity_threshold, in 1/Scale
    df,                    \* the DataFrame load_data returned
    cosine,                \* the cosine scores the vector space gives df's usable texts
    cat_pc,                \* categorize_by_domain: "loop", "returned", "raised"
    cat_idx,               \* categorize_by_domain: index of the next row (0-based)
    domain_results,        \* categorize_by_domain: the list domain_results
    cat_log,               \* per appended result: what the iteration was given (history)
    gemini_calls,          \* the idx of every call of categorize_with_gemini, in order (history)
    sim_pc,                \* calculate_similarity: "idle", "pairs", "returned", "raised"
    fit_called,            \* vectorizer.fit_transform was called (history)
    texts,                 \* calculate_similarity: the list texts
    project_ids,           \* calculate_similarity: the list project_ids
    similarity_matrix,     \* cosine_similarity(tfidf_matrix), its entries [i][j] with i < j
    sim_i,                 \* calculate_similarity: i of the pair loop (1-based)
    sim_j,                 \* calculate_similarity: j of the pair loop (1-based)
    similar_pairs,         \* calculate_similarity: the list similar_pairs
    similarity_df,         \* the DataFrame calculate_similarity returned
    run,                   \* which run of the analysis on this input this is: 1 or 2
    previous_df,           \* the table the run before returned
    main_pc,               \* analyze_fyp_data: "start", "exit", "loaded", "domains_written",
                           \* "similarity_written", "done"
    files                  \* the output files the create_*_excel functions were given

cfgVars == << gemini_model, similarity_threshold, df, cosine >>
catVars == << cat_pc, cat_idx, domain_results, cat_log, gemini_calls >>
simVars == << sim_pc, fit_called, texts, project_ids, similarity_matrix, sim_i, sim_j,
              similar_pairs, similarity_df >>
runVars == << run, previous_df, main_pc, files >>
vars == << cfgVars, catVars, simVars, runVars >>

-----------------------------------------------------------------------------
(* Bounds of the model *)

\* most rows of a DataFrame given to categorize_by_domain
MaxRecords == 2
\* most rows of a DataFrame given to calculate_similarity
MaxSimRecords == 4

\* similarity scores are integers in units of 1/10000: 1.0 is One
One == 10 * 1000
\* self.similarity_threshold = 0.3
DefaultThreshold == 3000
\* analyzer.similarity_threshold = 0.25
DemoThreshold == 2500
\* a value outside [0, 1]: 1.5
OutOfRangeThreshold == One + One \div 2
\* the values callers assign to the attribute
AssignedThresholds == { DemoThreshold, OutOfRangeThreshold }

-----------------------------------------------------------------------------
(* Python str operations *)

\* str.lower() on one character
LowerChar(c) ==
    CASE c = "A" -> "a"
      [] c = "I" -> "i"
      [] c = "W" -> "w"
      [] OTHER -> c

\* str.lower()
Lower(s) == [k \in DOMAIN s |-> LowerChar(s[k])]

\* a white-space character (str.strip, \s)
IsSpace(c) == c \in {" ", "\t", "\n"}

\* str.strip(), leading part
RECURSIVE LStrip(_)
LStrip(s) ==
    IF s = << >> THEN << >>
    ELSE IF IsSpace(Head(s)) THEN LStrip(Tail(s)) ELSE s

\* str.strip(), trailing part
RECURSIVE RStrip(_)
RStrip(s) ==
    IF s = << >> THEN << >>
    ELSE IF IsSpace(s[Len(s)]) THEN RStrip(SubSeq(s, 1, Len(s) - 1)) ELSE s

\* str.strip()
Strip(s) == RStrip(LStrip(s))

\* re.sub(r'\s+', ' ', text)
RECURSIVE CollapseSpaces(_)
CollapseSpaces(s) ==
    IF s = << >> THEN << >>
    ELSE IF IsSpace(Head(s))
         THEN << " " >> \o CollapseSpaces(LStrip(Tail(s)))
         ELSE << Head(s) >> \o CollapseSpaces(Tail(s))

\* sub occurs in text at position pos (1-based)
MatchesAt(text, sub, pos) ==
    /\ pos + Len(sub) - 1 <= Len(text)
    /\ \A k \in 1..Len(sub) : text[pos + k - 1] = sub[k]

\* str.count(sub) for a non-empty sub: the scan resumes after a match
RECURSIVE CountFrom(_, _, _)
CountFrom(text, sub, pos) ==
    IF pos + Len(sub) - 1 > Len(text) THEN 0
    ELSE IF MatchesAt(text, sub, pos)
         THEN 1 + CountFrom(text, sub, pos + Len(sub))
         ELSE CountFrom(text, sub, pos + 1)

\* str.count(sub)
StrCount(text, sub) == CountFrom(text, sub, 1)

\* x in list
InList(x, list) == \E k \in DOMAIN list : list[k] = x

\* dict[key] = value
DictSet(d, key, value) == (key :> value) @@ d

\* the empty dict
EmptyDict == [k \in {} |-> {}]

-----------------------------------------------------------------------------
(* self.domain_keywords: three of the fifteen domains of the source table, *)
(* in the order the dict literal declares them, two keywords of each       *)

AI_ML == << "Artificial Intelligence & Machine Learning" >>
WEB == << "Web Development" >>
CLOUD == << "Cloud Computing" >>
OTHER_DOMAIN == << "Other" >>
OTHER_DOMAIN_LIST == << OTHER_DOMAIN >>

domain_keywords ==
    << [domain |-> AI_ML, keywords |-> << <<"a", "i">>, <<"m", "l">> >>],
       [domain |-> WEB, keywords |-> << <<"w", "e", "b">>, <<"a", "p", "i">> >>],
       [domain |-> CLOUD, keywords |-> << <<"c", "l", "o", "u", "d">>,
                                         <<"s", "a", "a", "s">> >>] >>


-----------------------------------------------------------------------------
(* categorize_with_gemini: the values the call can return *)

\* None: the adapter is not configured, generate_content or response.text
\* raised, or the text was not JSON
None == [kind |-> "None", domains |-> << >>, primary_domain |-> << >>]

\* json.loads gave {}: parsed, and falsy
EmptyObject == [kind |-> "empty", domains |-> << >>, primary_domain |-> << >>]

\* json.loads gave a non-empty JSON array instead of an object
JsonArray == [kind |-> "list", domains |-> << >>, primary_domain |-> << >>]

\* json.loads gave an object with the keys "domains" and "primary_domain"
JsonObject(domains, primary_domain) ==
    [kind |-> "dict", domains |-> domains, primary_domain |-> primary_domain]

\* one element of "domains": numeric is FALSE when "confidence" is a JSON
\* string such as "high"
DomainInfo(name, confidence, numeric) ==
    [name |-> name, confidence |-> confidence, numeric |-> numeric]

\* bool(gemini_result)
Truthy(gemini_result) == gemini_result.kind \in {"dict", "list"}

-----------------------------------------------------------------------------
(* categorize_by_domain, one iteration of the loop over df.iterrows() *)

\* row.get(column, default)
RowGet(columns, row, column, default) ==
    IF column \in columns THEN row[column] ELSE default

\* f"Project_{idx}"
ProjectId(idx) == << "Project_" \o ToString(idx) >>

\* pd.notna(value): NaN is the cell of an empty spreadsheet field
NaN == << "<NaN>" >>
NotNa(value) == value # NaN

\* the state of one iteration: matched_domains, confidence_scores, and
\* whether a statement raised
IterState(matched, scores, raised) ==
    [matched |-> matched, scores |-> scores, raised |-> raised]

\* faulty variant of GeminiDomains: a domain needs a confidence above 6
\* (C20 must tell it from the code)
RECURSIVE GeminiDomainsAboveSix(_, _)
GeminiDomainsAboveSix(infos, st) ==
    IF infos = << >> THEN st
    ELSE LET info == Head(infos) IN
         IF info.name # << >> /\ ~info.numeric
         THEN IterState(st.matched, st.scores, TRUE)
         ELSE IF info.name # << >> /\ info.confidence > 6
              THEN GeminiDomainsAboveSix(Tail(infos),
                       IterState(Append(st.matched, info.name),
                                 DictSet(st.scores, info.name,
                                         [score |-> info.confidence,
                                          keywords |-> << >>,
                                          method |-> "gemini_ai"]),
                                 FALSE))
              ELSE GeminiDomainsAboveSix(Tail(infos), st)

\* the loop over gemini_result.get('domains', [])
RECURSIVE GeminiDomains(_, _)
GeminiDomains(infos, st) ==
    IF infos = << >> THEN st
    ELSE LET info == Head(infos) IN
         IF info.name # << >> /\ ~info.numeric
         THEN IterState(st.matched, st.scores, TRUE)  \* str >= int: TypeError
         ELSE IF info.name # << >> /\ info.confidence >= 6
              THEN GeminiDomains(Tail(infos),
                       IterState(Append(st.matched, info.name),
                                 DictSet(st.scores, info.name,
                                         [score |-> info.confidence,
                                          keywords |-> << >>,
                                          method |-> "gemini_ai"]),
                                 FALSE))
              ELSE GeminiDomains(Tail(infos), st)

\* faulty variant of GeminiPrimary: the primary domain is put in front of
\* matched_domains without an entry in confidence_scores (C26 must tell it
\* from the code)
GeminiPrimaryWithoutEntry(primary_domain, st) ==
    IF primary_domain # << >> /\ ~InList(primary_domain, st.matched)
    THEN IterState(<< primary_domain >> \o st.matched, st.scores, FALSE)
    ELSE st

\* "Set primary domain from Gemini"
GeminiPrimary(primary_domain, st) ==
    IF primary_domain # << >> /\ ~InList(primary_domain, st.matched)
    THEN IterState(<< primary_domain >> \o st.matched,
                   DictSet(st.scores, primary_domain,
                           [score |-> 8, keywords |-> << >>, method |-> "gemini_ai"]),
                   FALSE)
    ELSE st

\* "if gemini_result:" and its body
GeminiStep(gemini_result, st) ==
    IF ~Truthy(gemini_result) THEN st
    ELSE IF gemini_result.kind # "dict"
         THEN IterState(st.matched, st.scores, TRUE)  \* list has no .get: AttributeError
         ELSE LET after == GeminiDomains(gemini_result.domains, st) IN
              IF after.raised THEN after
              ELSE GeminiPrimary(gemini_result.primary_domain, after)

\* the loop over one domain's keywords: [score, matched_keywords]
RECURSIVE KeywordScan(_, _, _)
KeywordScan(combined_text, keywords, acc) ==
    IF keywords = << >> THEN acc
    ELSE LET keyword == Head(keywords)
             count == StrCount(combined_text, Lower(keyword))
         IN KeywordScan(combined_text, Tail(keywords),
                IF count > 0
                THEN [score |-> acc.score + count,
                      keywords |-> Append(acc.keywords, keyword)]
                ELSE acc)

\* faulty variant of KeywordDomains: the loop stops at the first domain
\* that scores (C6 must tell it from the code)
RECURSIVE KeywordDomainsFirstOnly(_, _, _)
KeywordDomainsFirstOnly(combined_text, taxonomy, st) ==
    IF taxonomy = << >> THEN st
    ELSE LET entry == Head(taxonomy)
             scan == KeywordScan(combined_text, entry.keywords,
                                 [score |-> 0, keywords |-> << >>])
         IN IF scan.score > 0
            THEN IterState(Append(st.matched, entry.domain),
                           DictSet(st.scores, entry.domain,
                                   [score |-> scan.score,
                                    keywords |-> scan.keywords,
                                    method |-> "keyword_matching"]),
                           FALSE)
            ELSE KeywordDomainsFirstOnly(combined_text, Tail(taxonomy), st)

\* the loop over self.domain_keywords.items()
RECURSIVE KeywordDomains(_, _, _)
KeywordDomains(combined_text, taxonomy, st) ==
    IF taxonomy = << >> THEN st
    ELSE LET entry == Head(taxonomy)
             scan == KeywordScan(combined_text, entry.keywords,
                                 [score |-> 0, keywords |-> << >>])
         IN KeywordDomains(combined_text, Tail(taxonomy),
                IF scan.score > 0
                THEN IterState(Append(st.matched, entry.domain),
                               DictSet(st.scores, entry.domain,
                                       [score |-> scan.score,
                                        keywords |-> scan.keywords,
                                        method |-> "keyword_matching"]),
                               FALSE)
                ELSE st)

\* f"{title_lower} {scope_lower}"
CombinedText(title, scope) == Lower(title) \o << " " >> \o Lower(scope)

\* faulty variant of ExistingStep: the label is taken as it stands, blank
\* or not (C18 must tell it from the code)
ExistingStepUntrimmed(columns, row, st) ==
    IF st.matched = << >> /\ "primary_domain" \in columns /\ NotNa(row["primary_domain"])
    THEN IterState(Append(st.matched, row["primary_domain"]),
                   DictSet(st.scores, row["primary_domain"],
                           [score |-> 1,
                            keywords |-> << <<"manual_categorization">> >>,
                            method |-> "existing_data"]),
                   FALSE)
    ELSE st

\* "If still no domains matched, try existing categorization"
ExistingStep(columns, row, st) ==
    IF st.matched = << >> /\ "primary_domain" \in columns
    THEN LET existing_domain == row["primary_domain"] IN
         IF NotNa(existing_domain) /\ Strip(existing_domain) # << >>
         THEN IterState(Append(st.matched, Strip(existing_domain)),
                        DictSet(st.scores, Strip(existing_domain),
                                [score |-> 1,
                                 keywords |-> << <<"manual_categorization">> >>,
                                 method |-> "existing_data"]),
                        FALSE)
         ELSE st
    ELSE st

\* faulty variant of FallbackStep: the keyword loop runs although the AI
\* step matched domains (C3 must tell it from the code)
FallbackStepAlways(columns, row, title, scope, st) ==
    ExistingStep(columns, row,
        KeywordDomains(CombinedText(title, scope), domain_keywords, st))

\* "Fallback to keyword matching if Gemini didn't find domains"
FallbackStep(columns, row, title, scope, st) ==
    IF st.matched = << >>
    THEN ExistingStep(columns, row,
             KeywordDomains(CombinedText(title, scope), domain_keywords, st))
    ELSE st

\* faulty variant of DefaultStep: nothing is assigned (C1 must tell it
\* from the code)
DefaultStepSkipped(st) == st

\* faulty variant of DefaultStep: "Other" is added to whatever matched
\* (C5 must tell it from the code)
DefaultStepAlways(st) ==
    IterState(Append(st.matched, OTHER_DOMAIN),
              DictSet(st.scores, OTHER_DOMAIN,
                      [score |-> 1, keywords |-> << >>, method |-> "default"]),
              FALSE)

\* faulty variant of DefaultStep: "Other" is put in front of the domains
\* that matched (C28 must tell it from the code)
DefaultStepInFront(st) ==
    IterState(OTHER_DOMAIN_LIST \o st.matched,
              DictSet(st.scores, OTHER_DOMAIN,
                      [score |-> 1, keywords |-> << >>, method |-> "default"]),
              FALSE)

\* "Default to 'Other' if no domains found"
DefaultStep(st) ==
    IF st.matched = << >>
    THEN IterState(OTHER_DOMAIN_LIST,
                   DictSet(st.scores, OTHER_DOMAIN,
                           [score |-> 1, keywords |-> << >>, method |-> "default"]),
                   FALSE)
    ELSE st

\* the body of the loop for one row, given what categorize_with_gemini
\* returned: the dict appended to domain_results, or raised
CategorizeIteration(columns, row, idx, gemini_result) ==
    LET project_id == RowGet(columns, row, "short_title", ProjectId(idx))
        title == RowGet(columns, row, "project_title", << >>)
        scope == RowGet(columns, row, "project_scope", << >>)
        start == IterState(<< >>, EmptyDict, FALSE)
        ai == GeminiStep(gemini_result, start)
        fallback == IF ai.raised THEN ai
                    ELSE FallbackStep(columns, row, title, scope, ai)
        final == IF fallback.raised THEN fallback ELSE DefaultStep(fallback)
    IN [raised |-> final.raised,
        result |-> [project_id |-> project_id,
                    project_title |-> title,
                    domains |-> final.matched,
                    confidence_scores |-> final.scores,
                    primary_domain |-> IF final.matched # << >>
                                       THEN final.matched[1] ELSE OTHER_DOMAIN,
                    categorization_method |-> IF Truthy(gemini_result)
                                              THEN "gemini_ai"
                                              ELSE "keyword_matching"]]

\* faulty variant of GeminiCalled: the adapter is called for every row
\* (C19 must tell it from the code)
GeminiCalledAnyText(columns, row) == gemini_model

\* "if self.gemini_model and title and scope": categorize_with_gemini is called
GeminiCalled(columns, row) ==
    /\ gemini_model
    /\ RowGet(columns, row, "project_title", << >>) # << >>
    /\ RowGet(columns, row, "project_scope", << >>) # << >>

-----------------------------------------------------------------------------
(* The inputs of the model *)

\* the "domains" lists of the AI responses: empty, below and at the
\* confidence bound, two domains, one name twice, an empty name, a
\* confidence that is no number
DomainLists ==
    { << >>,
      << DomainInfo(AI_ML, 5, TRUE) >>,
      << DomainInfo(AI_ML, 6, TRUE) >>,
      << DomainInfo(AI_ML, 6, TRUE), DomainInfo(WEB, 9, TRUE) >>,
      << DomainInfo(AI_ML, 7, TRUE), DomainInfo(AI_ML, 6, TRUE) >>,
      << DomainInfo(<< >>, 9, TRUE) >>,
      << DomainInfo(AI_ML, 5, TRUE), DomainInfo(WEB, 9, TRUE) >>,
      << DomainInfo(WEB, 0, FALSE) >> }

\* the "primary_domain" of the AI responses: none, one of the prompt's
\* list, one outside it
PrimaryDomains == { << >>, WEB, OTHER_DOMAIN }

\* what categorize_with_gemini can return when it is called
GeminiResults ==
    { None, EmptyObject, JsonArray }
    \cup { JsonObject(d, p) : d \in DomainLists, p \in PrimaryDomains }

\* str values of the rows
T_AI == <<"A", "I">>
T_web == <<"w", "e", "b">>
T_sea == <<"s", "e", "a">>
T_ml == <<"m", "l">>
T_web_ai == <<"w", "e", "b", " ", "a", "i">>
T_saasaas == <<"s", "a", "a", "s", "a", "a", "s">>
T_blank == <<" ">>
T_label == <<" ", "Networking", " ">>

\* a row of the sheet: title, scope and pre-existing label
Row(title, scope, label) ==
    [project_title |-> title, project_scope |-> scope, primary_domain |-> label]

\* rows for the runs with the adapter configured, in sheet order: keywords
\* match (the label is not needed), nothing matches and there is no label,
\* an empty scope (no call) with a label, and no keyword with a label
AISheet ==
    << Row(T_web, T_web_ai, T_label), Row(T_sea, T_blank, NaN),
       Row(T_sea, << >>, T_label), Row(T_sea, T_blank, T_label) >>

AIRows == { AISheet[k] : k \in DOMAIN AISheet }

\* rows for the keyword-only runs
KeywordRows ==
    AIRows \cup
    { Row(T_AI, T_ml, NaN), Row(T_sea, T_saasaas, NaN), Row(<< >>, << >>, NaN),
      Row(T_sea, T_blank, T_blank), Row(T_sea, T_sea, OTHER_DOMAIN) }

\* Short_Title of the row at position k (1-based)
ShortTitle(k) == << "F24-00" \o ToString(k) >>

\* clean_text, for a cell that fillna('') has made a str
clean_text(text) == Lower(Strip(CollapseSpaces(text)))

\* the columns load_data leaves for a sheet that has both text columns
AllColumns ==
    {"project_title", "project_scope", "short_title", "primary_domain",
     "cleaned_title", "cleaned_scope"}

\* the column sets of the sheets: one may lack the short title and the label
ColumnSets ==
    { AllColumns \ missing : missing \in SUBSET {"short_title", "primary_domain"} }

\* load_data on row k of a sheet with the given columns
LoadRow(columns, row, k) ==
    LET full == [short_title |-> ShortTitle(k),
                 project_title |-> row.project_title,
                 project_scope |-> row.project_scope,
                 primary_domain |-> row.primary_domain,
                 cleaned_title |-> clean_text(row.project_title),
                 cleaned_scope |-> clean_text(row.project_scope)]
    IN [c \in columns |-> full[c]]

\* load_data on a sheet
LoadData(columns, rows) ==
    [columns |-> columns,
     rows |-> [k \in DOMAIN rows |-> LoadRow(columns, rows[k], k)]]

\* the DataFrames of 1..MaxRecords rows over a set of rows
DataFrames(columnSets, rows) ==
    UNION { { LoadData(c, r) : c \in columnSets, r \in [1..n -> rows] } :
            n \in 1..MaxRecords }

\* the DataFrames of 1..MaxRecords consecutive rows of AISheet, from any
\* row on and around its end
AIDataFrames ==
    { LoadData(AllColumns,
               [k \in 1..n |-> AISheet[((first + k - 2) % Len(AISheet)) + 1]]) :
        first \in DOMAIN AISheet, n \in 1..MaxRecords }

-----------------------------------------------------------------------------
(* categorize_by_domain as a state machine *)

\* what one iteration was given, kept beside the result it appended
LogEntry(called, gemini_result) ==
    [called |-> called,                 \* categorize_with_gemini was called
     gemini_result |-> gemini_result]   \* what it returned (None when not called)

\* one iteration of "for idx, row in df.iterrows()", the call of
\* categorize_with_gemini included; an exception leaves the function
CategorizeRow ==
    /\ cat_pc = "loop"
    /\ cat_idx < Len(df.rows)
    /\ LET row == df.rows[cat_idx + 1]
           called == GeminiCalled(df.columns, row)
       IN \E gemini_result \in IF called THEN GeminiResults ELSE { None } :
            LET out == CategorizeIteration(df.columns, row, cat_idx, gemini_result)
            IN /\ gemini_calls' = IF called THEN Append(gemini_calls, cat_idx)
                                            ELSE gemini_calls
               /\ IF out.raised
                  THEN /\ cat_pc' = "raised"
                       /\ UNCHANGED << cat_idx, domain_results, cat_log >>
                  ELSE /\ domain_results' = Append(domain_results, out.result)
                       /\ cat_log' = Append(cat_log, LogEntry(called, gemini_result))
                       /\ cat_idx' = cat_idx + 1
                       /\ UNCHANGED cat_pc
    /\ UNCHANGED << cfgVars, simVars, runVars >>

\* "results_df = pd.DataFrame(domain_results) ... return results_df"
CategorizeReturn ==
    /\ cat_pc = "loop"
    /\ cat_idx = Len(df.rows)
    /\ cat_pc' = "returned"
    /\ UNCHANGED << cfgVars, simVars, runVars, cat_idx, domain_results, cat_log,
                    gemini_calls >>

\* calculate_similarity has not been called
SimIdle ==
    /\ sim_pc = "idle"
    /\ fit_called = FALSE
    /\ texts = << >>
    /\ project_ids = << >>
    /\ similarity_matrix = << >>
    /\ sim_i = 0
    /\ sim_j = 0
    /\ similar_pairs = << >>
    /\ similarity_df = << >>

\* the first run of the analysis in this process
FirstRun ==
    /\ run = 1
    /\ previous_df = << >>
    /\ main_pc = "loaded"
    /\ files = {}

\* the state when analyze_fyp_data calls categorize_by_domain(df)
InitCat ==
    /\ gemini_model \in BOOLEAN
    /\ similarity_threshold = DefaultThreshold
    /\ df \in IF gemini_model THEN AIDataFrames
                              ELSE DataFrames(ColumnSets, KeywordRows)
    /\ cat_pc = "loop"
    /\ cat_idx = 0
    /\ domain_results = << >>
    /\ cat_log = << >>
    /\ gemini_calls = << >>
    /\ cosine = << >>
    /\ SimIdle
    /\ FirstRun

NextCat == CategorizeRow \/ CategorizeReturn

SpecCat == InitCat /\ [][NextCat]_vars

-----------------------------------------------------------------------------
(* The vector space of TfidfVectorizer(max_features=1000,                  *)
(* stop_words='english', ngram_range=(1, 2), min_df=1, max_df=0.95)        *)

\* the end of the first word of t: the position of its first white space,
\* or Len(t) + 1
WordEnd(t) ==
    CHOOSE k \in 1..(Len(t) + 1) :
        /\ k = Len(t) + 1 \/ IsSpace(t[k])
        /\ \A m \in 1..(k - 1) : ~IsSpace(t[m])

\* str.split()
RECURSIVE Split(_)
Split(s) ==
    LET t == LStrip(s) IN
    IF t = << >> THEN << >>
    ELSE << SubSeq(t, 1, WordEnd(t) - 1) >> \o Split(SubSeq(t, WordEnd(t), Len(t)))

\* of the built-in English stop word list, the words the texts here use
StopWords == { <<"t", "h", "e">>, <<"w", "i", "t", "h">> }

\* the analyzer up to the n-grams: lower case, tokens of two or more word
\* characters, stop words removed
Tokens(text) ==
    SelectSeq(Split(Lower(text)), LAMBDA w : Len(w) >= 2 /\ w \notin StopWords)

\* the terms of a document: its unigrams, then its bigrams
Terms(text) ==
    LET tokens == Tokens(text) IN
    [k \in 1..Len(tokens) |-> << tokens[k] >>]
        \o [k \in 1..(Len(tokens) - 1) |-> << tokens[k], tokens[k + 1] >>]

\* how often a term occurs in a document
TermCount(text, term) ==
    LET terms == Terms(text) IN
    Cardinality({ k \in DOMAIN terms : terms[k] = term })

\* the set of the elements of a list
ToSet(list) == { list[k] : k \in DOMAIN list }

\* the number of documents a term occurs in
DocFreq(docs, term) ==
    Cardinality({ k \in DOMAIN docs : TermCount(docs[k], term) > 0 })

\* the vocabulary fit_transform keeps: a term stays when its document
\* frequency is at least min_df = 1 and at most max_df * n = 0.95 * n (the
\* model's vocabularies stay far below max_features)
Vocabulary(docs) ==
    { term \in UNION { ToSet(Terms(docs[k])) : k \in DOMAIN docs } :
        /\ DocFreq(docs, term) >= 1
        /\ 20 * DocFreq(docs, term) <= 19 * Len(docs) }

\* fit_transform raises ValueError: no term before or after the pruning
FitRaises(docs) == Vocabulary(docs) = {}

\* cosine scores are integers in units of 1/10000; the values of the model:
\* 0, at 0.3, just above 0.3, 0.6, and 1.0
ScoreValues == { 0, 3000, 3004, 6000, One }

\* the scores strictly between 0 and 1
InteriorScores == ScoreValues \ { 0, One }

\* what cosine_similarity can give documents i and j.  The tf-idf weight of
\* a term in a document is its count times a positive factor of the term, so
\* the score is 0 exactly when no kept term is in both documents and 1.0
\* exactly when the two count vectors are parallel; every other pair gets
\* one of the interior values.
CosineValues(docs, i, j) ==
    LET vocabulary == Vocabulary(docs)
        vi == [term \in vocabulary |-> TermCount(docs[i], term)]
        vj == [term \in vocabulary |-> TermCount(docs[j], term)]
    IN IF ~\E term \in vocabulary : vi[term] > 0 /\ vj[term] > 0
       THEN { 0 }
       ELSE IF \A t, u \in vocabulary : vi[t] * vj[u] = vi[u] * vj[t]
            THEN { One }
            ELSE InteriorScores

\* the index pairs of the loops "for i ... for j in range(i + 1, ...)"
UpperTriangle(n) == { p \in (1..n) \X (1..n) : p[1] < p[2] }

\* the matrices over a set of index pairs, each entry one of the scores the
\* pair can get
RECURSIVE CosinesOver(_, _)
CosinesOver(docs, pairs) ==
    IF pairs = {} THEN { << >> }
    ELSE LET p == CHOOSE q \in pairs : TRUE IN
         { (p :> score) @@ m :
             score \in CosineValues(docs, p[1], p[2]),
             m \in CosinesOver(docs, pairs \ { p }) }

\* the matrices cosine_similarity(tfidf_matrix) can be for the documents,
\* their entries [i][j] with i < j; << >> when there is no matrix
Cosines(docs) ==
    IF Len(docs) < 2 \/ FitRaises(docs) THEN { << >> }
    ELSE CosinesOver(docs, UpperTriangle(Len(docs)))

-----------------------------------------------------------------------------
(* generate_similarity_explanation *)

\* the orders in which iterating a set can give its elements: the order
\* of a set of str depends on the hash seed of the process
Perms(set) ==
    { order \in [1..Cardinality(set) -> set] :
        \A a, b \in 1..Cardinality(set) : a # b => order[a] # order[b] }

\* sep.join(list)
RECURSIVE Join(_, _)
Join(list, sep) ==
    IF list = << >> THEN << >>
    ELSE IF Len(list) = 1 THEN list[1]
         ELSE list[1] \o sep \o Join(Tail(list), sep)

\* the words the lexical clause never names
CommonWordList ==
    { <<"t", "h", "a", "t">>, <<"t", "h", "i", "s">>, <<"w", "i", "t", "h">>,
      <<"f", "r", "o", "m">>, <<"t", "h", "e", "y">>, <<"w", "e", "r", "e">>,
      <<"b", "e", "e", "n">> }

\* the set the list meaningful_common is built from
MeaningfulCommon(text1, text2) ==
    { word \in ToSet(Split(text1)) \cap ToSet(Split(text2)) :
        Len(word) > 3 /\ word \notin CommonWordList }

\* faulty variant of FirstThree: the whole list is named (C22 must tell it
\* from the code)
FirstThreeAndMore(list) == list

\* list[:3]
FirstThree(list) == SubSeq(list, 1, IF Len(list) < 3 THEN Len(list) ELSE 3)

\* the explanations the call can return: overlapping_domains is given in
\* the order its iteration yields, and the common words come in any order.
\* A str is a sequence of atoms: the literal pieces, the domain names, and
\* the characters of the words.
generate_similarity_explanation(proj1_id, proj2_id, similarity_score, overlapping_domains, text1, text2) ==
    { LET domain_part ==
              IF overlapping_domains # << >>
              THEN << << "Both projects belong to " >>
                         \o Join(overlapping_domains, << ", " >>)
                         \o << " domain(s)" >> >>
              ELSE << >>
          words_part ==
              IF meaningful_common = << >> THEN << >>
              ELSE IF Len(meaningful_common) > 5
                   THEN << << "Share multiple technical concepts and approaches" >> >>
                   ELSE << << "Share common concepts: " >>
                              \o Join(FirstThree(meaningful_common), << ", " >>) >>
          level_part ==
              IF similarity_score > 7000
              THEN << << "Very similar project objectives and methodologies" >> >>
              ELSE IF similarity_score > 5000
                   THEN << << "Similar approach with some methodological overlap" >> >>
                   ELSE << << "Some conceptual similarities in approach" >> >>
      IN Join(domain_part \o words_part \o level_part, << ". " >>) \o << "." >> :
      meaningful_common \in Perms(MeaningfulCommon(text1, text2)) }

-----------------------------------------------------------------------------
(* calculate_similarity *)

\* round(similarity_score, 3): the nearest multiple of 0.001, a half to even
Round3(score) ==
    LET q == score \div 10
        r == score % 10
    IN IF r < 5 THEN 10 * q
       ELSE IF r > 5 THEN 10 * (q + 1)
       ELSE IF q % 2 = 0 THEN 10 * q ELSE 10 * (q + 1)

\* faulty variant of SimilarityLevel: the lowest boundary moves with the
\* retention threshold (C24 must tell it from the code)
SimilarityLevelFromThreshold(similarity_score) ==
    IF similarity_score > 7000 THEN "Very High"
    ELSE IF similarity_score > 5000 THEN "High"
    ELSE IF similarity_score > similarity_threshold THEN "Medium"
    ELSE "Low"

\* "Determine similarity level"
SimilarityLevel(similarity_score) ==
    IF similarity_score > 7000 THEN "Very High"
    ELSE IF similarity_score > 5000 THEN "High"
    ELSE IF similarity_score > 3000 THEN "Medium"
    ELSE "Low"

\* f"{title} {scope}" over the cleaned columns of a row
CleanedText(columns, row) ==
    RowGet(columns, row, "cleaned_title", << >>) \o << " " >>
        \o RowGet(columns, row, "cleaned_scope", << >>)

\* the positions of the rows whose combined text is not blank, in row order
RECURSIVE UsableFrom(_, _)
UsableFrom(d, k) ==
    IF k > Len(d.rows) THEN << >>
    ELSE IF Strip(CleanedText(d.columns, d.rows[k])) # << >>
         THEN << k >> \o UsableFrom(d, k + 1)
         ELSE UsableFrom(d, k + 1)

\* "Prepare text data for similarity analysis": texts and project_ids
PreparedTexts(d) ==
    LET usable == UsableFrom(d, 1) IN
    [k \in DOMAIN usable |-> CleanedText(d.columns, d.rows[usable[k]])]

PreparedIds(d) ==
    LET usable == UsableFrom(d, 1) IN
    [k \in DOMAIN usable |->
        RowGet(d.columns, d.rows[usable[k]], "short_title", ProjectId(usable[k] - 1))]

\* faulty variant of TooFewTexts: the vector space is built for any number
\* of texts (C16 must tell it from the code)
TooFewTextsNever(prepared) == FALSE

\* "if len(texts) < 2"
TooFewTexts(prepared) == Len(prepared) < 2

\* get_project_domains, the loop over the keywords of the taxonomy: the
\* first domain one of whose keywords is in the text
RECURSIVE FirstDomain(_, _)
FirstDomain(combined_text, taxonomy) ==
    IF taxonomy = << >> THEN << OTHER_DOMAIN >>
    ELSE IF \E w \in DOMAIN Head(taxonomy).keywords :
                \E pos \in 1..Len(combined_text) :
                    MatchesAt(combined_text, Lower(Head(taxonomy).keywords[w]), pos)
         THEN << Head(taxonomy).domain >>
         ELSE FirstDomain(combined_text, Tail(taxonomy))

\* get_project_domains: df[False] raises KeyError when df has no short_title
get_project_domains(project_id, d) ==
    IF "short_title" \notin d.columns
    THEN [raised |-> TRUE, domains |-> << >>]
    ELSE LET project_row == SelectSeq(d.rows, LAMBDA r : r.short_title = project_id) IN
         IF project_row = << >>
         THEN [raised |-> FALSE, domains |-> << >>]
         ELSE [raised |-> FALSE,
               domains |-> FirstDomain(CleanedText(d.columns, project_row[1]),
                                       domain_keywords)]

\* the dict appended to similar_pairs for the pair (i, j); overlapping_domains
\* is list(overlapping_domains), in the order the set iterates
SimilarPair(i, j, similarity_score, overlapping_domains, explanation) ==
    [project_1_id |-> project_ids[i],
     project_2_id |-> project_ids[j],
     similarity_score |-> Round3(similarity_score),
     similarity_level |-> SimilarityLevel(similarity_score),
     overlapping_domains |-> overlapping_domains,
     explanation |-> explanation]

\* results_df.sort_values('similarity_score', ascending=False), whose sort
\* is numpy's quicksort and promises no order for rows of equal score: the
\* orders of the rows that descend by score
RECURSIVE SortedOrders(_)
SortedOrders(rows) ==
    IF rows = {} THEN { << >> }
    ELSE UNION { { << first >> \o rest : rest \in SortedOrders(rows \ { first }) } :
                 first \in { r \in rows :
                               \A o \in rows : o.similarity_score <= r.similarity_score } }

\* a caller assigns the attribute after the constructor (demo.py, web_app.py);
\* nothing checks the value
SetThreshold ==
    /\ sim_pc = "idle"
    /\ run = 1
    /\ similarity_threshold = DefaultThreshold
    /\ similarity_threshold' \in AssignedThresholds
    /\ UNCHANGED << gemini_model, df, cosine, catVars, simVars, runVars >>

\* faulty variant of ExceptClause: the exception leaves calculate_similarity
\* (C27 must tell it from the code)
ExceptClauseRaises == [pc |-> "raised", df |-> << >>]

\* "except Exception as e: ... return pd.DataFrame()": how the call ends
\* and what it returns
ExceptClause == [pc |-> "returned", df |-> << >>]

\* fewer than two usable texts: "return pd.DataFrame()"
SimTooFew ==
    /\ sim_pc = "idle"
    /\ TooFewTexts(PreparedTexts(df))
    /\ texts' = PreparedTexts(df)
    /\ project_ids' = PreparedIds(df)
    /\ sim_pc' = "returned"
    /\ similarity_df' = << >>
    /\ UNCHANGED << cfgVars, catVars, runVars, fit_called, similarity_matrix,
                    sim_i, sim_j, similar_pairs >>

\* vectorizer.fit_transform raises (no term is left): the except clause
\* returns pd.DataFrame()
SimFitRaises ==
    /\ sim_pc = "idle"
    /\ ~TooFewTexts(PreparedTexts(df))
    /\ FitRaises(PreparedTexts(df))
    /\ texts' = PreparedTexts(df)
    /\ project_ids' = PreparedIds(df)
    /\ fit_called' = TRUE
    /\ sim_pc' = ExceptClause.pc
    /\ similarity_df' = ExceptClause.df
    /\ UNCHANGED << cfgVars, catVars, runVars, similarity_matrix, sim_i, sim_j,
                    similar_pairs >>

\* fit_transform and cosine_similarity give the matrix; the pair loop starts
SimFit ==
    /\ sim_pc = "idle"
    /\ ~TooFewTexts(PreparedTexts(df))
    /\ ~FitRaises(PreparedTexts(df))
    /\ texts' = PreparedTexts(df)
    /\ project_ids' = PreparedIds(df)
    /\ fit_called' = TRUE
    /\ similarity_matrix' = cosine
    /\ sim_pc' = "pairs"
    /\ sim_i' = 1
    /\ sim_j' = 2
    /\ UNCHANGED << cfgVars, catVars, runVars, similar_pairs, similarity_df >>

\* one pass of the inner loop body, for the pair (sim_i, sim_j)
SimPair ==
    /\ sim_pc = "pairs"
    /\ sim_i < Len(project_ids)
    /\ LET similarity_score == similarity_matrix[<< sim_i, sim_j >>]
           proj1 == get_project_domains(project_ids[sim_i], df)
           proj2 == get_project_domains(project_ids[sim_j], df)
           last == sim_j = Len(project_ids)
       IN IF similarity_score > similarity_threshold /\ (proj1.raised \/ proj2.raised)
          THEN /\ sim_pc' = ExceptClause.pc
               /\ similarity_df' = ExceptClause.df
               /\ UNCHANGED << sim_i, sim_j, similar_pairs >>
          ELSE /\ IF similarity_score > similarity_threshold
                  THEN \E overlapping_domains \in
                              Perms(ToSet(proj1.domains) \cap ToSet(proj2.domains)) :
                         \E explanation \in
                              generate_similarity_explanation(
                                  project_ids[sim_i], project_ids[sim_j],
                                  similarity_score, overlapping_domains,
                                  texts[sim_i], texts[sim_j]) :
                           similar_pairs' =
                               Append(similar_pairs,
                                      SimilarPair(sim_i, sim_j, similarity_score,
                                                  overlapping_domains, explanation))
                  ELSE UNCHANGED similar_pairs
               /\ sim_i' = IF last THEN sim_i + 1 ELSE sim_i
               /\ sim_j' = IF last THEN sim_i + 2 ELSE sim_j + 1
               /\ UNCHANGED << sim_pc, similarity_df >>
    /\ UNCHANGED << cfgVars, catVars, runVars, fit_called, texts, project_ids,
                    similarity_matrix >>

\* "results_df = pd.DataFrame(similar_pairs)", the sort, "return results_df"
SimReturn ==
    /\ sim_pc = "pairs"
    /\ sim_i >= Len(project_ids)
    /\ similarity_df' \in SortedOrders(ToSet(similar_pairs))
    /\ sim_pc' = "returned"
    /\ UNCHANGED << cfgVars, catVars, runVars, fit_called, texts, project_ids,
                    similarity_matrix, sim_i, sim_j, similar_pairs >>

\* the analysis is run again on the unchanged input, in a new process: the
\* table of the first run is kept for comparison
SimRerun ==
    /\ sim_pc = "returned"
    /\ run = 1
    /\ run' = 2
    /\ previous_df' = similarity_df
    /\ sim_pc' = "idle"
    /\ fit_called' = FALSE
    /\ texts' = << >>
    /\ project_ids' = << >>
    /\ similarity_matrix' = << >>
    /\ sim_i' = 0
    /\ sim_j' = 0
    /\ similar_pairs' = << >>
    /\ similarity_df' = << >>
    /\ UNCHANGED << cfgVars, catVars, main_pc, files >>

\* str values of the rows of the sheets given to calculate_similarity
T_ai_portal_study ==
    <<"a", "i", " ", "p", "o", "r", "t", "a", "l", " ", "s", "t", "u", "d", "y">>
T_api_portal_study ==
    <<"a", "p", "i", " ", "p", "o", "r", "t", "a", "l", " ", "s", "t", "u", "d", "y">>
T_the == <<"t", "h", "e">>

\* rows in sheet order, repeating: keywords of two domains, no text,
\* keywords of the first domain, keywords of the second domain
SimSheet ==
    << Row(T_web, T_ai_portal_study, NaN), Row(<< >>, T_blank, NaN),
       Row(T_AI, T_ml, NaN), Row(T_web, T_api_portal_study, NaN) >>

\* exactly two records with the same title and scope
TwinSheet == << Row(T_web, T_ai_portal_study, NaN), Row(T_web, T_ai_portal_study, NaN) >>

\* a record of stop words only beside a record with one term
StopWordSheet == << Row(T_the, T_the, NaN), Row(T_the, T_web, NaN) >>

\* str values of the rows of WordySheet
T_data_wire_node ==
    <<"d", "a", "t", "a", " ", "w", "i", "r", "e", " ", "n", "o", "d", "e">>
T_grid_link_mesh_with ==
    <<"g", "r", "i", "d", " ", "l", "i", "n", "k", " ", "m", "e", "s", "h", " ", "w", "i", "t", "h">>
T_mesh_link_grid ==
    <<"m", "e", "s", "h", " ", "l", "i", "n", "k", " ", "g", "r", "i", "d">>
T_node_wire_data_with ==
    <<"n", "o", "d", "e", " ", "w", "i", "r", "e", " ", "d", "a", "t", "a", " ", "w", "i", "t", "h">>
T_data_wire ==
    <<"d", "a", "t", "a", " ", "w", "i", "r", "e">>
T_node_grid_web ==
    <<"n", "o", "d", "e", " ", "g", "r", "i", "d", " ", "w", "e", "b">>

\* the first two records, without a keyword, share six long words and
\* "with"; the third, with a keyword, shares four long words with each
WordySheet ==
    << Row(T_data_wire_node, T_grid_link_mesh_with, NaN),
       Row(T_mesh_link_grid, T_node_wire_data_with, NaN),
       Row(T_data_wire, T_node_grid_web, NaN) >>

\* the DataFrames of 1..MaxSimRecords rows of SimSheet and of the three other
\* sheets, with and without the short title column
SimDataFrames ==
    { LoadData(c, sheet) :
        c \in { AllColumns, AllColumns \ {"short_title"} },
        sheet \in { [k \in 1..n |-> SimSheet[((k - 1) % Len(SimSheet)) + 1]] :
                      n \in 1..MaxSimRecords }
                  \cup { TwinSheet, StopWordSheet, WordySheet } }

\* categorize_by_domain(d) with the adapter absent: its domain_results
KeywordResults(d) ==
    [k \in DOMAIN d.rows |->
        CategorizeIteration(d.columns, d.rows[k], k - 1, None).result]

\* the state when analyze_fyp_data calls calculate_similarity(df), the
\* adapter absent
InitSim ==
    /\ gemini_model = FALSE
    /\ similarity_threshold = DefaultThreshold
    /\ df \in SimDataFrames
    /\ cosine \in Cosines(PreparedTexts(df))
    /\ cat_pc = "returned"
    /\ cat_idx = Len(df.rows)
    /\ domain_results = KeywordResults(df)
    /\ cat_log = [k \in DOMAIN df.rows |-> LogEntry(FALSE, None)]
    /\ gemini_calls = << >>
    /\ SimIdle
    /\ FirstRun

NextSim ==
    SetThreshold \/ SimTooFew \/ SimFitRaises \/ SimFit \/ SimPair \/ SimReturn

SpecSim == InitSim /\ [][NextSim]_vars

\* two runs of calculate_similarity on the same input
NextTwice == NextSim \/ SimRerun

SpecTwice == InitSim /\ [][NextTwice]_vars

-----------------------------------------------------------------------------
(* analyze_fyp_data: load, categorize, compare, export                     *)

\* pd.DataFrame(): what load_data returns when reading raised
NoFrame == [columns |-> {}, rows |-> << >>]

\* what load_data returns for a sheet of headers without rows
HeaderOnlyFrame == [columns |-> AllColumns, rows |-> << >>]

\* df.empty
Empty(d) == d.columns = {} \/ d.rows = << >>

\* the DataFrames load_data can return to analyze_fyp_data
LoadedFrames ==
    { NoFrame, HeaderOnlyFrame }
        \cup (IF gemini_model THEN AIDataFrames ELSE SimDataFrames)

\* the two output files of analyze_fyp_data
domain_output == "fyp_domain_categorization.xlsx"
similarity_output == "fyp_similarity_analysis.xlsx"

\* categorize_by_domain has not been called
CatIdle ==
    /\ cat_pc = "idle"
    /\ cat_idx = 0
    /\ domain_results = << >>
    /\ cat_log = << >>
    /\ gemini_calls = << >>

\* "df = self.load_data(input_file)", "if df.empty: ... return", and the
\* call of categorize_by_domain(df) otherwise
AnalyzeLoad ==
    /\ main_pc = "start"
    /\ df' \in LoadedFrames
    /\ cosine' \in Cosines(PreparedTexts(df'))
    /\ IF Empty(df')
       THEN /\ main_pc' = "exit"
            /\ UNCHANGED cat_pc
       ELSE /\ main_pc' = "loaded"
            /\ cat_pc' = "loop"
    /\ UNCHANGED << gemini_model, similarity_threshold, cat_idx, domain_results,
                    cat_log, gemini_calls, simVars, run, previous_df, files >>

\* "domain_df = self.categorize_by_domain(df)": one iteration of its loop; an
\* exception leaves analyze_fyp_data too
AnalyzeCategorizeRow == main_pc = "loaded" /\ CategorizeRow

\* categorize_by_domain returns to analyze_fyp_data
AnalyzeCategorizeReturn == main_pc = "loaded" /\ CategorizeReturn

\* "similarity_df = self.calculate_similarity(df)", called once
\* categorize_by_domain has returned
AnalyzeSimilarity ==
    /\ main_pc = "loaded"
    /\ cat_pc = "returned"
    /\ SimTooFew \/ SimFitRaises \/ SimFit \/ SimPair \/ SimReturn

\* "self.create_domain_excel(domain_df, domain_output)"
AnalyzeCreateDomainExcel ==
    /\ main_pc = "loaded"
    /\ sim_pc = "returned"
    /\ files' = files \cup { domain_output }
    /\ main_pc' = "domains_written"
    /\ UNCHANGED << cfgVars, catVars, simVars, run, previous_df >>

\* "self.create_similarity_excel(similarity_df, similarity_output)"
AnalyzeCreateSimilarityExcel ==
    /\ main_pc = "domains_written"
    /\ files' = files \cup { similarity_output }
    /\ main_pc' = "similarity_written"
    /\ UNCHANGED << cfgVars, catVars, simVars, run, previous_df >>

\* "self.print_summary_statistics(domain_df, similarity_df)" and the end
AnalyzeDone ==
    /\ main_pc = "similarity_written"
    /\ main_pc' = "done"
    /\ UNCHANGED << cfgVars, catVars, simVars, run, previous_df, files >>

\* the state when analyze_fyp_data is called on a new FYPAnalyzer
Init ==
    /\ gemini_model \in BOOLEAN
    /\ similarity_threshold = DefaultThreshold
    /\ df = NoFrame
    /\ cosine = << >>
    /\ CatIdle
    /\ SimIdle
    /\ run = 1
    /\ previous_df = << >>
    /\ main_pc = "start"
    /\ files = {}

Next ==
    \/ AnalyzeLoad
    \/ AnalyzeCategorizeRow
    \/ AnalyzeCategorizeReturn
    \/ AnalyzeSimilarity
    \/ AnalyzeCreateDomainExcel
    \/ AnalyzeCreateSimilarityExcel
    \/ AnalyzeDone

Spec == Init /\ [][Next]_vars

-----------------------------------------------------------------------------
(* Properties of categorize_by_domain.  Record k of domain_results was     *)
(* made from row k of df and from cat_log[k].gemini_result.                *)

Records == DOMAIN domain_results

\* sub occurs somewhere in text
Occurs(text, sub) == \E pos \in 1..Len(text) : MatchesAt(text, sub, pos)

\* title and scope of row k as the loop reads them
TitleOf(k) == RowGet(df.columns, df.rows[k], "project_title", << >>)
ScopeOf(k) == RowGet(df.columns, df.rows[k], "project_scope", << >>)

\* the text the keyword step searches for row k
SearchText(k) == Lower(TitleOf(k)) \o << " " >> \o Lower(ScopeOf(k))

\* the taxonomy entry at position t has a keyword occurring in row k's text
DomainOccurs(k, t) ==
    \E w \in DOMAIN domain_keywords[t].keywords :
        Occurs(SearchText(k), Lower(domain_keywords[t].keywords[w]))

\* the AI result of record k retains a named domain at confidence >= 6
AIRetains(k) ==
    LET g == cat_log[k].gemini_result IN
    /\ g.kind = "dict"
    /\ \E i \in DOMAIN g.domains :
           g.domains[i].name # << >> /\ g.domains[i].numeric
           /\ g.domains[i].confidence >= 6

\* the AI step supplies at least one domain for record k
AIProduces(k) ==
    \/ AIRetains(k)
    \/ /\ cat_log[k].gemini_result.kind = "dict"
       /\ cat_log[k].gemini_result.primary_domain # << >>

\* the keyword step would supply at least one domain for record k
KeywordProduces(k) == \E t \in DOMAIN domain_keywords : DomainOccurs(k, t)

\* row k carries a pre-existing label that is not blank
LabelProduces(k) ==
    /\ "primary_domain" \in df.columns
    /\ df.rows[k].primary_domain # NaN
    /\ Strip(df.rows[k].primary_domain) # << >>

\* C1: after categorize_by_domain, whatever the adapter returned for a
\* record (nothing, a failure, unparseable text, any parsed domain list), the
\* record's matched_domains list is not empty.
C1_MatchedDomainsNonEmpty ==
    \A k \in Records : domain_results[k].domains # << >>

\* C1 witness: the run returned, and a record whose adapter call gave a parsed
\* object with no domain, no keyword match and no label holds the sentinel.
C1_Witness ==
    /\ cat_pc = "returned"
    /\ \E k \in Records :
        /\ cat_log[k].called
        /\ cat_log[k].gemini_result = JsonObject(<< >>, << >>)
        /\ ~KeywordProduces(k) /\ ~LabelProduces(k)
        /\ domain_results[k].domains = << OTHER_DOMAIN >>

\* C2: no record's matched_domains names a domain twice, whichever step
\* produced the list.
C2_NoDuplicateDomains ==
    \A k \in Records :
        \A p, q \in DOMAIN domain_results[k].domains :
            p # q => domain_results[k].domains[p] # domain_results[k].domains[q]

\* C3: when the AI result of a record retains at least one domain (a name
\* with confidence >= 6), the record's method is the AI method and nothing of
\* the record comes from the keyword step: every matched domain is one the AI
\* named, with the AI's score.
C3_AIResultWins ==
    \A k \in Records :
        AIRetains(k) =>
            LET r == domain_results[k]
                g == cat_log[k].gemini_result
            IN /\ r.categorization_method = "gemini_ai"
               /\ DOMAIN r.confidence_scores = { r.domains[p] : p \in DOMAIN r.domains }
               /\ \A p \in DOMAIN r.domains :
                    /\ r.confidence_scores[r.domains[p]].method = "gemini_ai"
                    /\ \/ /\ r.domains[p] = g.primary_domain
                          /\ r.confidence_scores[r.domains[p]].score = 8
                       \/ \E i \in DOMAIN g.domains :
                            /\ g.domains[i].name = r.domains[p]
                            /\ g.domains[i].confidence >= 6
                            /\ g.domains[i].confidence
                                 = r.confidence_scores[r.domains[p]].score

\* C3 witness: a record whose text holds keywords of two taxonomy domains
\* was resolved from an AI result that retained one domain only.
C3_Witness ==
    /\ cat_pc = "returned"
    /\ \E k \in Records :
        /\ AIRetains(k)
        /\ KeywordProduces(k)
        /\ cat_log[k].gemini_result.primary_domain = << >>
        /\ domain_results[k].domains = << AI_ML >>

\* C4: the record-level method tag names the step that produced
\* matched_domains (the step recorded with the first matched domain): ai,
\* keyword, existing label or default.
C4_MethodNamesProducingStep ==
    \A k \in Records :
        LET r == domain_results[k] IN
        r.categorization_method = r.confidence_scores[r.domains[1]].method

\* C5 as claimed: matched_domains is exactly ["Other"] if and only if the AI
\* step, the keyword step and the existing-label step all produced nothing.
C5_OtherIffNothingProduced ==
    \A k \in Records :
        (domain_results[k].domains = << OTHER_DOMAIN >>)
            <=> (~AIProduces(k) /\ ~KeywordProduces(k) /\ ~LabelProduces(k))

\* C5 amended: the sentinel "Other" is assigned by the default step (method
\* default, score 1, as the only matched domain) if and only if the AI step,
\* the keyword step and the existing-label step all produced nothing; in
\* every other case no domain of the record carries the default method.
C5_DefaultIffNothingProduced ==
    \A k \in Records :
        LET r == domain_results[k]
            nothing == ~AIProduces(k) /\ ~KeywordProduces(k) /\ ~LabelProduces(k)
        IN /\ nothing =>
                /\ r.domains = << OTHER_DOMAIN >>
                /\ r.confidence_scores[OTHER_DOMAIN].method = "default"
                /\ r.confidence_scores[OTHER_DOMAIN].score = 1
           /\ ~nothing =>
                \A d \in DOMAIN r.confidence_scores :
                    r.confidence_scores[d].method # "default"

\* C5 witness: one record took the default, and another holds "Other" as
\* the name its own label gave.
C5_Witness ==
    /\ cat_pc = "returned"
    /\ \E k \in Records :
        /\ domain_results[k].domains = << OTHER_DOMAIN >>
        /\ domain_results[k].confidence_scores[OTHER_DOMAIN].method = "default"
    /\ \E k \in Records :
        /\ domain_results[k].domains = << OTHER_DOMAIN >>
        /\ domain_results[k].confidence_scores[OTHER_DOMAIN].method = "existing_data"

\* positions of the taxonomy whose domain occurs in row k's text
OccurringPositions(k) == { t \in DOMAIN domain_keywords : DomainOccurs(k, t) }

\* C6: when the AI step yields no domain for a record, the keyword step
\* gives exactly the taxonomy domains with a keyword occurring in
\* lower(title) + " " + lower(scope) (those of aggregate score > 0), in the
\* order the taxonomy declares them, each with a positive keyword score; they
\* are the record's matched_domains, and when there is none no domain of the
\* record comes from the keyword step.
C6_KeywordDomainsInTaxonomyOrder ==
    \A k \in Records :
        ~AIProduces(k) =>
            LET r == domain_results[k] IN
            IF KeywordProduces(k)
            THEN /\ Len(r.domains) = Cardinality(OccurringPositions(k))
                 /\ \A p \in DOMAIN r.domains :
                      \E t \in OccurringPositions(k) :
                         /\ r.domains[p] = domain_keywords[t].domain
                         /\ Cardinality({ u \in OccurringPositions(k) : u < t }) = p - 1
                         /\ r.confidence_scores[r.domains[p]].score > 0
                         /\ r.confidence_scores[r.domains[p]].method = "keyword_matching"
            ELSE \A d \in DOMAIN r.confidence_scores :
                    r.confidence_scores[d].method # "keyword_matching"

\* C6 witness: the adapter answered without a retained domain, and the
\* keyword step listed the first-declared domain first although the second
\* scored higher.
C6_Witness ==
    /\ cat_pc = "returned"
    /\ \E k \in Records :
        /\ cat_log[k].called
        /\ cat_log[k].gemini_result.kind = "dict"
        /\ domain_results[k].domains = << AI_ML, WEB >>
        /\ domain_results[k].confidence_scores[WEB].score
             > domain_results[k].confidence_scores[AI_ML].score

\* C7: when the AI result of a record names a primary_domain, that domain
\* is the first element of the record's matched_domains.
C7_PrimaryDomainFirst ==
    \A k \in Records :
        LET g == cat_log[k].gemini_result IN
        (g.kind = "dict" /\ g.primary_domain # << >>) =>
            domain_results[k].domains[1] = g.primary_domain

\* C8: no outcome of the AI call makes categorize_by_domain raise.
C8_NoOutcomeAbortsTheBatch == cat_pc # "raised"

-----------------------------------------------------------------------------
(* Properties of calculate_similarity *)

\* the vector space was built and the scores of all pairs exist
Fitted == DOMAIN similarity_matrix # {}

\* the pairs of usable records, by position, whose raw score exceeds the
\* threshold
PairsAboveThreshold ==
    { p \in UpperTriangle(Len(project_ids)) :
        similarity_matrix[p] > similarity_threshold }

\* the pairs of positions the returned table reports
ReportedPairs ==
    { p \in UpperTriangle(Len(project_ids)) :
        \E k \in DOMAIN similarity_df :
            /\ similarity_df[k].project_1_id = project_ids[p[1]]
            /\ similarity_df[k].project_2_id = project_ids[p[2]] }

\* every row of the table names a pair i < j of usable records, once
ReportedRowsAreUpperTriangle ==
    /\ \A k \in DOMAIN similarity_df :
        \E p \in UpperTriangle(Len(project_ids)) :
            /\ similarity_df[k].project_1_id = project_ids[p[1]]
            /\ similarity_df[k].project_2_id = project_ids[p[2]]
    /\ Len(similarity_df) = Cardinality(ReportedPairs)

\* C9: the table calculate_similarity returns reports exactly the pairs
\* (i, j), i < j in input order, of usable records whose unrounded score is
\* above the threshold: none at or below it, none missing, none twice.
C9_ExactlyThePairsAboveThreshold ==
    (sim_pc = "returned" /\ Fitted) =>
        /\ ReportedRowsAreUpperTriangle
        /\ ReportedPairs = PairsAboveThreshold

\* C9, the part the code keeps: when the sheet has the short title column,
\* the returned table reports exactly the pairs above the threshold.
C9_ExactWithShortTitles ==
    (sim_pc = "returned" /\ Fitted /\ "short_title" \in df.columns) =>
        /\ ReportedRowsAreUpperTriangle
        /\ ReportedPairs = PairsAboveThreshold

\* C10: the reported (rounded) score of every pair lies in (threshold, 1.0].
C10_ReportedScoreAboveThreshold ==
    \A k \in DOMAIN similarity_df :
        /\ similarity_df[k].similarity_score > similarity_threshold
        /\ similarity_df[k].similarity_score <= One

\* C11: the similarity_level of every reported pair is the tier that the
\* boundaries (> 0.7 Very High, > 0.5 High, > 0.3 Medium, else Low) give for
\* the rounded score the pair reports, whatever the retention threshold is.
C11_TierOfReportedScore ==
    \A k \in DOMAIN similarity_df :
        similarity_df[k].similarity_level
            = SimilarityLevel(similarity_df[k].similarity_score)

\* the position of a row of the returned table in similar_pairs, the
\* order in which the pair loop found it
Discovered(row) == CHOOSE k \in DOMAIN similar_pairs : similar_pairs[k] = row

\* C12: the returned table descends by reported score, and rows of equal
\* reported score stand in the order the pair loop found them (i ascending,
\* then j ascending).
C12_DescendingTiesInDiscoveryOrder ==
    (sim_pc = "returned" /\ similarity_df # << >>) =>
        \A a, b \in DOMAIN similarity_df :
            a < b =>
                \/ similarity_df[a].similarity_score > similarity_df[b].similarity_score
                \/ /\ similarity_df[a].similarity_score
                        = similarity_df[b].similarity_score
                   /\ Discovered(similarity_df[a]) < Discovered(similarity_df[b])

\* C12, the part the code keeps: the returned table never ascends.
C12_NeverAscending ==
    \A a, b \in DOMAIN similarity_df :
        a < b => similarity_df[a].similarity_score >= similarity_df[b].similarity_score

\* the sheet is exactly two records with the same title and scope, neither
\* blank
TwinInput ==
    /\ Len(df.rows) = 2
    /\ TitleOf(1) = TitleOf(2)
    /\ ScopeOf(1) = ScopeOf(2)
    /\ Strip(TitleOf(1)) # << >>
    /\ Strip(ScopeOf(1)) # << >>

\* C13: for exactly two records with identical non-empty title and scope
\* and threshold 0.3, calculate_similarity returns exactly one pair, with
\* score 1.0 and tier "Very High".
C13_TwinsGiveOnePairAtOne ==
    (TwinInput /\ similarity_threshold = DefaultThreshold /\ sim_pc = "returned") =>
        /\ Len(similarity_df) = 1
        /\ similarity_df[1].similarity_score = One
        /\ similarity_df[1].similarity_level = "Very High"

\* C14: with the adapter absent, a second run on the same input, taxonomy
\* and threshold returns the same Similarity Pair table as the first: the
\* same rows with the same explanation text and the same order of
\* overlapping_domains.  (The Domain Assignment table is KeywordResults(df), a
\* function of the input; the rows are compared as a set, the order of rows
\* of equal score being the matter of C12.)
C14_SecondRunGivesTheSameRows ==
    (run = 2 /\ sim_pc = "returned") => ToSet(similarity_df) = ToSet(previous_df)

\* a row of the table without its explanation
WithoutExplanation(row) ==
    [f \in DOMAIN row \ {"explanation"} |-> row[f]]

\* C14, the part the code keeps: apart from the explanation text the two
\* runs return the same rows.
C14_SameApartFromExplanation ==
    (run = 2 /\ sim_pc = "returned") =>
        { WithoutExplanation(similarity_df[k]) : k \in DOMAIN similarity_df }
            = { WithoutExplanation(previous_df[k]) : k \in DOMAIN previous_df }

\* the matched_domains categorize_by_domain gave the record with this id
MatchedDomainsOf(project_id) ==
    UNION { ToSet(domain_results[k].domains) :
              k \in { r \in Records : domain_results[r].project_id = project_id } }

\* C15: the overlapping_domains of every reported pair is the intersection
\* of the matched_domains the domain resolution gave the two records, all of
\* them.
C15_OverlapIsIntersectionOfMatched ==
    \A k \in DOMAIN similarity_df :
        ToSet(similarity_df[k].overlapping_domains)
            = MatchedDomainsOf(similarity_df[k].project_1_id)
                \cap MatchedDomainsOf(similarity_df[k].project_2_id)

\* the rows of df whose cleaned title + " " + cleaned scope holds a
\* character that is no white space
UsableRows ==
    { k \in DOMAIN df.rows :
        LET combined == clean_text(TitleOf(k)) \o << " " >> \o clean_text(ScopeOf(k))
        IN \E pos \in DOMAIN combined : ~IsSpace(combined[pos]) }

\* C16: with fewer than two records of non-blank combined normalized text,
\* calculate_similarity returns an empty table: the vector space is never
\* built, no pair is examined, and no exception path is taken.
C16_TooFewUsableTextsGiveEmpty ==
    Cardinality(UsableRows) < 2 =>
        /\ ~fit_called
        /\ sim_pc \in {"idle", "returned"}
        /\ similar_pairs = << >>
        /\ similarity_df = << >>

\* C16 witness: a sheet of two rows of which one only is usable has been
\* answered.
C16_Witness ==
    /\ Len(df.rows) >= 2
    /\ Cardinality(UsableRows) = 1
    /\ sim_pc = "returned"
    /\ similarity_df = << >>

\* C17: no similarity computation runs with a similarity threshold outside
\* [0, 1] or an empty taxonomy: such a configuration is rejected before.
C17_BadConfigurationNeverRuns ==
    sim_pc # "idle" =>
        /\ similarity_threshold >= 0
        /\ similarity_threshold <= One
        /\ domain_keywords # << >>

-----------------------------------------------------------------------------
(* Further properties of categorize_by_domain *)

\* the existing-label step supplied a domain of record k
ExistingLabelUsed(k) ==
    \E d \in DOMAIN domain_results[k].confidence_scores :
        domain_results[k].confidence_scores[d].method = "existing_data"

C19_OneCallPerRecordInOrder ==
    /\ \A a, b \in DOMAIN gemini_calls :
            a < b => gemini_calls[a] < gemini_calls[b]
    /\ \A a \in DOMAIN gemini_calls :
            /\ gemini_model
            /\ gemini_calls[a] <= cat_idx
            /\ gemini_calls[a] < Len(df.rows)
            /\ TitleOf(gemini_calls[a] + 1) # << >>
            /\ ScopeOf(gemini_calls[a] + 1) # << >>

\* C19 witness: with the adapter configured, a run returned in which one
\* record's call failed (None), and the record after it, whose scope is
\* empty, was resolved without a call.
C19_Witness ==
    /\ cat_pc = "returned"
    /\ gemini_model
    /\ gemini_calls = << 0 >>
    /\ Len(domain_results) = 2
    /\ cat_log[1].called /\ cat_log[1].gemini_result = None
    /\ ~cat_log[2].called
    /\ ScopeOf(2) = << >>

\* the names the AI results of the model give their domains
AINames == { AI_ML, WEB, << >> }

\* the AI step retained the domain of this name for record k
AIRetained(k, name) ==
    /\ InList(name, domain_results[k].domains)
    /\ domain_results[k].confidence_scores[name].method = "gemini_ai"

\* C20: in the AI step a domain the adapter reports, other than the
\* designated primary_domain, is retained in matched_domains if and only if
\* its name is not empty and the adapter gave it a confidence >= 6 (6 is
\* retained, 5 is not), and the score recorded with it is a confidence >= 6
\* the adapter gave that name.
C20_RetainedIffNamedAndAtLeastSix ==
    \A k \in Records :
        LET g == cat_log[k].gemini_result
            r == domain_results[k]
        IN g.kind = "dict" =>
            \A name \in AINames \ { g.primary_domain } :
                /\ AIRetained(k, name)
                     <=> /\ name # << >>
                         /\ \E i \in DOMAIN g.domains :
                                g.domains[i].name = name /\ g.domains[i].confidence >= 6
                /\ AIRetained(k, name) =>
                     \E i \in DOMAIN g.domains :
                        /\ g.domains[i].name = name
                        /\ g.domains[i].confidence >= 6
                        /\ r.confidence_scores[name].score = g.domains[i].confidence
                /\ name = << >> => ~InList(name, r.domains)

\* C20 witness: of two records answered by the adapter, one kept a domain
\* at confidence exactly 6 beside one at 9, and the other dropped a domain
\* at confidence 5 and kept the one at 9.
C20_Witness ==
    /\ cat_pc = "returned"
    /\ \E k \in Records :
        /\ cat_log[k].gemini_result
             = JsonObject(<< DomainInfo(AI_ML, 6, TRUE), DomainInfo(WEB, 9, TRUE) >>, << >>)
        /\ domain_results[k].domains = << AI_ML, WEB >>
        /\ domain_results[k].confidence_scores[AI_ML].score = 6
    /\ \E k \in Records :
        /\ cat_log[k].gemini_result
             = JsonObject(<< DomainInfo(AI_ML, 5, TRUE), DomainInfo(WEB, 9, TRUE) >>, << >>)
        /\ domain_results[k].domains = << WEB >>
        /\ domain_results[k].confidence_scores[WEB].score = 9

\* the number of positions of text at which sub occurs, occurrences that
\* overlap each counted
OverlappingCount(text, sub) ==
    Cardinality({ pos \in 1..Len(text) : MatchesAt(text, sub, pos) })

\* the sum of the overlapping counts of the keywords in row k's text
RECURSIVE OverlappingScore(_, _)
OverlappingScore(k, keywords) ==
    IF keywords = << >> THEN 0
    ELSE OverlappingCount(SearchText(k), Lower(Head(keywords)))
            + OverlappingScore(k, Tail(keywords))

\* the keywords that occur in row k's text, in the order of the list
OccurringKeywords(k, keywords) ==
    SelectSeq(keywords, LAMBDA keyword : Occurs(SearchText(k), Lower(keyword)))

\* the keyword step produced the domains of record k
KeywordStepUsed(k) == ~AIProduces(k) /\ KeywordProduces(k)

\* C21: in the keyword step the score of a matched domain is the sum over
\* its keywords of the number of occurrences of the keyword in the
\* lower-cased combined text, overlapping occurrences each counted, and its
\* evidence list is exactly the keywords with a nonzero count.
C21_ScoreCountsOverlappingOccurrences ==
    \A k \in Records :
        KeywordStepUsed(k) =>
            \A t \in OccurringPositions(k) :
                LET entry == domain_keywords[t]
                    info == domain_results[k].confidence_scores[entry.domain]
                IN /\ info.score = OverlappingScore(k, entry.keywords)
                   /\ info.keywords = OccurringKeywords(k, entry.keywords)

\* C21, the part the code keeps: the evidence list of a matched domain is
\* exactly its keywords that occur in the text, and the score is at least
\* their number.
C21_EvidenceIsTheOccurringKeywords ==
    \A k \in Records :
        KeywordStepUsed(k) =>
            \A t \in OccurringPositions(k) :
                LET entry == domain_keywords[t]
                    info == domain_results[k].confidence_scores[entry.domain]
                IN /\ info.keywords = OccurringKeywords(k, entry.keywords)
                   /\ info.score >= Len(info.keywords)

-----------------------------------------------------------------------------
(* Properties of generate_similarity_explanation *)

\* the position in texts of the record with this id
PositionOf(project_id) == CHOOSE i \in DOMAIN project_ids : project_ids[i] = project_id

\* the white-space tokens longer than 3 and outside the fixed stop set
\* that the texts of the two records of a row share
SharedTokens(row) ==
    { word \in ToSet(Split(texts[PositionOf(row.project_1_id)])) :
        /\ word \in ToSet(Split(texts[PositionOf(row.project_2_id)]))
        /\ Len(word) > 3
        /\ word \notin CommonWordList }

\* the three score-band clauses
BandClauses ==
    { << "Very similar project objectives and methodologies" >>,
      << "Similar approach with some methodological overlap" >>,
      << "Some conceptual similarities in approach" >> }

\* the lists of m different elements of a set
Selections(set, m) ==
    { list \in [1..m -> set] : \A a, b \in 1..m : a # b => list[a] # list[b] }

\* the smaller of two numbers
Min(a, b) == IF a < b THEN a ELSE b

\* the clauses an explanation of the row may consist of, by the claim: the
\* domain clause when domains overlap, the lexical clause when tokens are
\* shared (the summary for more than 5, else min(3, n) of them by name),
\* and one score-band clause last
ClaimedClauses(row) ==
    LET shared == SharedTokens(row)
        n == Cardinality(shared)
        domain_clauses ==
            IF row.overlapping_domains # << >>
            THEN { << << "Both projects belong to " >>
                        \o Join(row.overlapping_domains, << ", " >>)
                        \o << " domain(s)" >> >> }
            ELSE { << >> }
        lexical_clauses ==
            IF n = 0 THEN { << >> }
            ELSE IF n > 5
                 THEN { << << "Share multiple technical concepts and approaches" >> >> }
                 ELSE { << << "Share common concepts: " >> \o Join(names, << ", " >>) >> :
                          names \in Selections(shared, Min(3, n)) }
    IN { d \o l \o << band >> :
           d \in domain_clauses, l \in lexical_clauses, band \in BandClauses }

\* C22: the explanation of every pair is its clauses joined by ". " and
\* closed by a period, where the clauses are: the domain clause iff
\* overlapping_domains is not empty; the lexical clause iff the two texts
\* share a white-space token longer than 3 outside the stop set, as the
\* "multiple technical concepts" summary iff more than 5 are shared and else
\* naming min(3, n) of the n shared tokens; and exactly one score-band
\* clause, last.
C22_ExplanationClauses ==
    \A k \in DOMAIN similar_pairs :
        \E clauses \in ClaimedClauses(similar_pairs[k]) :
            similar_pairs[k].explanation = Join(clauses, << ". " >>) \o << "." >>

\* C22 witness: the returned table holds a pair with the domain clause and
\* the summary of more than five shared tokens, and a pair without domain
\* clause that names three of four shared tokens.
C22_Witness ==
    /\ sim_pc = "returned"
    /\ \E k \in DOMAIN similarity_df :
        /\ Cardinality(SharedTokens(similarity_df[k])) > 5
        /\ similarity_df[k].overlapping_domains # << >>
        /\ InList("Share multiple technical concepts and approaches",
                  similarity_df[k].explanation)
    /\ \E k \in DOMAIN similarity_df :
        /\ Cardinality(SharedTokens(similarity_df[k])) = 4
        /\ similarity_df[k].overlapping_domains = << >>
        /\ InList("Share common concepts: ", similarity_df[k].explanation)

-----------------------------------------------------------------------------
(* Properties of the tiers under a retention threshold *)

\* similarity_matrix[i][j] of the pair a row of the table reports: the score
\* that was compared with the threshold
MatrixScore(row) ==
    similarity_matrix[<< PositionOf(row.project_1_id), PositionOf(row.project_2_id) >>]

\* C24: under a retention threshold of 0.3 or more no reported pair has the
\* tier "Low"; under a threshold below 0.3 a retained pair whose score is at
\* most 0.3 has the tier "Low"; and the tier boundaries 0.7, 0.5 and 0.3 stay
\* where they are whatever the threshold is.
C24_LowTierAndThreshold ==
    \A k \in DOMAIN similarity_df :
        LET row == similarity_df[k]
            score == MatrixScore(row)
        IN /\ similarity_threshold >= 3000 => row.similarity_level # "Low"
           /\ (similarity_threshold < 3000 /\ score <= 3000)
                  => row.similarity_level = "Low"
           /\ row.similarity_level = "Very High" <=> score > 7000
           /\ row.similarity_level = "High" <=> (score > 5000 /\ score <= 7000)
           /\ row.similarity_level = "Medium" <=> (score > 3000 /\ score <= 5000)
           /\ row.similarity_level = "Low" <=> score <= 3000

\* C24 witness: under the threshold 0.25 the returned table has a pair of
\* score 0.3 with the tier "Low" beside a pair of a higher tier
C24_Witness ==
    /\ sim_pc = "returned"
    /\ similarity_threshold = DemoThreshold
    /\ \E k \in DOMAIN similarity_df :
          /\ MatrixScore(similarity_df[k]) = 3000
          /\ similarity_df[k].similarity_level = "Low"
    /\ \E k \in DOMAIN similarity_df : similarity_df[k].similarity_level # "Low"

\* under the default threshold a pair was retained, with the tier "Medium"
C24_RetainedAtDefault ==
    /\ sim_pc = "returned"
    /\ similarity_threshold = DefaultThreshold
    /\ \E k \in DOMAIN similarity_df : similarity_df[k].similarity_level = "Medium"

-----------------------------------------------------------------------------
(* Properties of calculate_similarity on a sheet without short titles *)

\* every usable record is identified by Project_<index>, the identifier
\* categorize_by_domain gave the same row
PositionalIds ==
    LET usable == UsableFrom(df, 1) IN
    \A k \in DOMAIN project_ids :
        /\ project_ids[k] = ProjectId(usable[k] - 1)
        /\ project_ids[k] = domain_results[usable[k]].project_id

\* C25 (the identifiers): on a sheet without the short title column
\* calculate_similarity identifies each usable record by the positional
\* identifier categorize_by_domain uses.
C25_PositionalIdsUsed ==
    (sim_pc = "returned" /\ Fitted /\ "short_title" \notin df.columns) => PositionalIds

\* C25: on a sheet without the short title column calculate_similarity
\* identifies each record by its positional identifier and still reports,
\* under those identifiers, every pair whose score exceeds the threshold:
\* the domain lookup never loses the result.
C25_PairsKeptWithoutShortTitles ==
    (sim_pc = "returned" /\ Fitted /\ "short_title" \notin df.columns) =>
        /\ PositionalIds
        /\ PairsAboveThreshold \subseteq ReportedPairs

\* C25 (what the code does): on a sheet without the short title column the
\* returned table is empty as soon as one pair exceeds the threshold.
C25_LookupLosesTheResult ==
    (sim_pc = "returned" /\ Fitted /\ "short_title" \notin df.columns
        /\ PairsAboveThreshold # {}) => similarity_df = << >>

-----------------------------------------------------------------------------
(* Properties of the result records of categorize_by_domain *)

\* C26: in every result of categorize_by_domain the keys of
\* confidence_scores are exactly the names in matched_domains, each with one
\* entry of a score, a method and its evidence, and the primary_domain field
\* is the first of matched_domains.
C26_ScoresMatchDomains ==
    \A k \in Records :
        LET result == domain_results[k] IN
        /\ DOMAIN result.confidence_scores = ToSet(result.domains)
        /\ \A name \in DOMAIN result.confidence_scores :
              DOMAIN result.confidence_scores[name] = { "score", "keywords", "method" }
        /\ result.domains # << >>
        /\ result.primary_domain = result.domains[1]

\* C26 witness: the run returned a record whose AI answer named one domain
\* twice and a primary domain outside its list, which was put in front
C26_Witness ==
    /\ cat_pc = "returned"
    /\ \E k \in Records :
          /\ cat_log[k].called
          /\ Len(cat_log[k].gemini_result.domains) = 2
          /\ domain_results[k].domains = << OTHER_DOMAIN, AI_ML, AI_ML >>
          /\ domain_results[k].primary_domain = cat_log[k].gemini_result.primary_domain
    /\ \E k \in Records : domain_results[k].categorization_method = "keyword_matching"

-----------------------------------------------------------------------------
(* Properties of the except clause of calculate_similarity *)

\* an exception arose in the try block: fit_transform raised, or the pair
\* loop was left before its last pair
ExceptionArose ==
    /\ sim_pc \in { "returned", "raised" }
    /\ fit_called
    /\ ~Fitted \/ sim_i < Len(project_ids)

\* C27: calculate_similarity is all-or-nothing. It never raises, and when an
\* exception arose while the vector space was built or a pair was evaluated
\* it returns an empty table, never the pairs evaluated before the failure.
C27_AllOrNothing ==
    /\ sim_pc # "raised"
    /\ ExceptionArose => similarity_df = << >>

\* C27 witness: the domain lookup raised at a pair after the first one of
\* the loop, and the call returned an empty table
C27_Witness ==
    /\ ExceptionArose
    /\ Fitted
    /\ << sim_i, sim_j >> # << 1, 2 >>
    /\ sim_pc = "returned"
    /\ similarity_df = << >>

\* a run in which fit_transform raised returned an empty table
C27_FitFailed ==
    /\ ExceptionArose
    /\ ~Fitted
    /\ sim_pc = "returned"
    /\ similarity_df = << >>

-----------------------------------------------------------------------------
(* Properties of the keyword path of categorize_by_domain *)

\* the keys of self.domain_keywords
TaxonomyDomains == { domain_keywords[t].domain : t \in DOMAIN domain_keywords }

\* C28: with the adapter absent, the matched_domains of a record without a
\* domain label of its own hold only keys of the taxonomy or "Other", and
\* "Other" only as the sole element, never beside a taxonomy domain.
C28_TaxonomyOrOtherAlone ==
    \A k \in Records :
        (~gemini_model /\ ~LabelProduces(k)) =>
            LET domains == domain_results[k].domains IN
            /\ ToSet(domains) \subseteq TaxonomyDomains \cup { OTHER_DOMAIN }
            /\ InList(OTHER_DOMAIN, domains) => domains = OTHER_DOMAIN_LIST

\* C28 witness: with the adapter absent the run returned a record without
\* a label that matched two taxonomy domains and one that got "Other" alone
C28_Witness ==
    /\ cat_pc = "returned"
    /\ ~gemini_model
    /\ \E k \in Records :
          /\ ~LabelProduces(k)
          /\ Len(domain_results[k].domains) = 2
          /\ ToSet(domain_results[k].domains) \subseteq TaxonomyDomains
    /\ \E k \in Records :
          /\ ~LabelProduces(k)
          /\ domain_results[k].domains = OTHER_DOMAIN_LIST

-----------------------------------------------------------------------------
(* Properties of analyze_fyp_data *)

\* calculate_similarity has started
SimilarityStarted == sim_pc # "idle" \/ fit_called \/ texts # << >>

\* the pair loop of calculate_similarity went through every pair of the
\* matrix (there is none when no matrix was built)
AllPairsEvaluated ==
    /\ sim_pc = "returned"
    /\ similarity_matrix # << >> => sim_i >= Len(project_ids)

\* C23 (the order of the calls): calculate_similarity starts only when
\* categorize_by_domain has returned a result for every record, a file is
\* written only when calculate_similarity has returned, and when loading
\* gives no records nothing is categorized, compared or written.
C23_CallsInOrder ==
    /\ SimilarityStarted =>
          cat_pc = "returned" /\ Len(domain_results) = Len(df.rows)
    /\ files # {} => sim_pc = "returned"
    /\ main_pc = "exit" => CatIdle /\ SimIdle /\ files = {}

\* C23: in analyze_fyp_data no similarity pair is computed before the last
\* record's domain assignment is complete, no output is written before all
\* pairs are evaluated, and when loading yields no records none of
\* categorization, similarity or export is performed.
C23_StrictOrder ==
    /\ C23_CallsInOrder
    /\ files # {} => AllPairsEvaluated

=============================================================================
